---- MODULE Spec2Model ----
(***************************************************************************)
(* Order processing and sales aggregation of the restaurant cashier        *)
(* backend (backend/server.py): create_order, get_orders, get_today_orders *)
(* and get_dashboard_stats over the db.orders collection, and              *)
(* create_menu_item over db.menu_items.                                    *)
(***************************************************************************)
EXTENDS Integers, Sequences, FiniteSets, TLC

(***************************************************************************)
(* Bounds of the model.                                                    *)
(***************************************************************************)
\* db.orders holds at most this many documents in the model
MaxOrders == 3

\* POST /menu adds at most this many documents to the seeded catalog
MaxMenuCreated == 1

(***************************************************************************)
(* Python float: the finite values are modelled by integers (amounts that  *)
(* binary64 represents exactly), beside the IEEE special values that a     *)
(* `float` field accepts.                                                  *)
(***************************************************************************)
Num(n) == [cls |-> "num", v |-> n]
NaN == [cls |-> "nan", v |-> 0]
Inf == [cls |-> "inf", v |-> 0]
NegInf == [cls |-> "-inf", v |-> 0]

\* a - b on floats (cash_received - total_amount)
FSub(a, b) ==
    IF a = NaN \/ b = NaN THEN NaN
    ELSE IF a = Inf THEN (IF b = Inf THEN NaN ELSE Inf)
    ELSE IF a = NegInf THEN (IF b = NegInf THEN NaN ELSE NegInf)
    ELSE IF b = Inf THEN NegInf
    ELSE IF b = NegInf THEN Inf
    ELSE Num(a.v - b.v)

\* a + b on floats (sum(...) accumulates with +)
FAdd(a, b) ==
    IF a = NaN \/ b = NaN THEN NaN
    ELSE IF a = Inf THEN (IF b = NegInf THEN NaN ELSE Inf)
    ELSE IF a = NegInf THEN (IF b = Inf THEN NaN ELSE NegInf)
    ELSE IF b \in {Inf, NegInf} THEN b
    ELSE Num(a.v + b.v)

\* a < b on floats: every comparison with NaN is False
FLt(a, b) ==
    IF a = NaN \/ b = NaN THEN FALSE
    ELSE IF a = b THEN FALSE
    ELSE IF a = NegInf \/ b = Inf THEN TRUE
    ELSE IF a = Inf \/ b = NegInf THEN FALSE
    ELSE a.v < b.v

\* a == b on floats: NaN equals nothing, itself included
FEq(a, b) == a # NaN /\ b # NaN /\ a = b

\* a >= b on floats
FGe(a, b) == FEq(a, b) \/ FLt(b, a)

(***************************************************************************)
(* datetime: a record of the calendar fields, in UTC.                      *)
(***************************************************************************)
DateTime(y, mo, d, h, mi, s, us) ==
    [year |-> y, month |-> mo, day |-> d, hour |-> h, minute |-> mi,
     second |-> s, microsecond |-> us]

IsLeap(y) == (y % 4 = 0 /\ y % 100 # 0) \/ y % 400 = 0

DaysInMonth(y, mo) ==
    IF mo = 2 THEN (IF IsLeap(y) THEN 29 ELSE 28)
    ELSE IF mo \in {4, 6, 9, 11} THEN 30 ELSE 31

\* datetime.replace(hour=0, minute=0, second=0, microsecond=0)
StartOfDay(dt) == [dt EXCEPT !.hour = 0, !.minute = 0, !.second = 0, !.microsecond = 0]

\* datetime.replace(day=d) raises ValueError when d is no day of the month
ReplaceDayValid(dt, d) == d >= 1 /\ d <= DaysInMonth(dt.year, dt.month)
ReplaceDay(dt, d) == [dt EXCEPT !.day = d]

(***************************************************************************)
(* str: a sequence of character codes; MongoDB compares strings code by    *)
(* code, a proper prefix being the smaller.                                *)
(***************************************************************************)
Digit(n) == 48 + n
Digits2(n) == <<Digit(n \div 10), Digit(n % 10)>>
Digits4(n) == <<Digit(n \div 1000), Digit((n \div 100) % 10), Digit((n \div 10) % 10), Digit(n % 10)>>
Digits6(n) == <<Digit(n \div 100000), Digit((n \div 10000) % 10), Digit((n \div 1000) % 10),
                Digit((n \div 100) % 10), Digit((n \div 10) % 10), Digit(n % 10)>>

\* datetime.isoformat() of an aware UTC datetime:
\* YYYY-MM-DDTHH:MM:SS[.ffffff]+00:00, the fraction omitted when microsecond = 0
IsoFormat(dt) ==
    Digits4(dt.year) \o <<45>> \o Digits2(dt.month) \o <<45>> \o Digits2(dt.day)
    \o <<84>> \o Digits2(dt.hour) \o <<58>> \o Digits2(dt.minute)
    \o <<58>> \o Digits2(dt.second)
    \o (IF dt.microsecond = 0 THEN <<>> ELSE <<46>> \o Digits6(dt.microsecond))
    \o <<43>> \o Digits2(0) \o <<58>> \o Digits2(0)

\* today.strftime("%Y-%m-%d")
StrfDate(dt) == Digits4(dt.year) \o <<45>> \o Digits2(dt.month) \o <<45>> \o Digits2(dt.day)

\* datetime.fromisoformat() of such a string (parse_from_mongo)
FromIsoFormat(str) ==
    LET D(i) == str[i] - 48
    IN  DateTime(1000 * D(1) + 100 * D(2) + 10 * D(3) + D(4),
                 10 * D(6) + D(7),
                 10 * D(9) + D(10),
                 10 * D(12) + D(13),
                 10 * D(15) + D(16),
                 10 * D(18) + D(19),
                 IF str[20] = 46
                 THEN 100000 * D(21) + 10000 * D(22) + 1000 * D(23)
                      + 100 * D(24) + 10 * D(25) + D(26)
                 ELSE 0)

RECURSIVE StrLt(_, _)
StrLt(a, b) ==
    IF b = <<>> THEN FALSE
    ELSE IF a = <<>> THEN TRUE
    ELSE IF Head(a) # Head(b) THEN Head(a) < Head(b)
    ELSE StrLt(Tail(a), Tail(b))

StrGe(a, b) == ~StrLt(a, b)

(***************************************************************************)
(* Program constants.                                                      *)
(***************************************************************************)
\* .to_list(1000) of get_today_orders and get_dashboard_stats: the most
\* documents a find returns.  The model scales 1000 down so that a log can
\* grow past it.
ToListLength == 2

\* sorted(...)[:5] of get_today_orders
TopN == 5

(***************************************************************************)
(* Inputs.                                                                 *)
(***************************************************************************)
\* users seeded by init_default_data, as get_current_user returns them
Users ==
    { [id |-> "admin-id", name |-> "Administrator", role |-> "admin"],
      [id |-> "kasir-id", name |-> "Kasir Utama", role |-> "kasir"] }

\* a clock reading of a day that is not the last of its month
Dec30 == DateTime(2024, 12, 30, 0, 0, 0, 1)

\* values of datetime.now(timezone.utc): the last instant of 29 December, the
\* first two of 30 December, and the first of 31 December, the last day of a
\* month and of a year
Instants ==
    { DateTime(2024, 12, 29, 23, 59, 59, 999999),
      DateTime(2024, 12, 30, 0, 0, 0, 0),
      Dec30,
      DateTime(2024, 12, 31, 0, 0, 0, 0) }

\* a line item; the catalog reference is the name in the model
CartItem(name, quantity, price) ==
    [menu_item_id |-> name, quantity |-> quantity, price |-> price, name |-> name]

OrderCreate(items, total_amount, cash_received, cashier) ==
    [items |-> items, total_amount |-> total_amount, cash_received |-> cash_received,
     cashier_id |-> cashier.id, cashier_name |-> cashier.name]

Kasir == [id |-> "kasir-id", name |-> "Kasir Utama"]

\* well-formed sales: two of A and one of B, the asserted total their sum and
\* cash above it; one of B, exact cash
WellFormed ==
    { OrderCreate(<<CartItem("A", 2, Num(1)), CartItem("B", 1, Num(1))>>, Num(3), Num(4), Kasir),
      OrderCreate(<<CartItem("B", 1, Num(1))>>, Num(1), Num(1), Kasir) }

\* request bodies of POST /orders that pass the type validation of OrderCreate
Candidates ==
    WellFormed \cup
    {
      \* cash below the asserted total and below the sum of the lines
      OrderCreate(<<CartItem("A", 2, Num(1))>>, Num(2), Num(1), Kasir),
      \* asserted total below the sum of the lines, cash equal to the asserted total
      OrderCreate(<<CartItem("A", 2, Num(1))>>, Num(1), Num(1), Kasir),
      \* no line item
      OrderCreate(<<>>, Num(0), Num(0), Kasir),
      \* a quantity of zero
      OrderCreate(<<CartItem("C", 0, Num(1))>>, Num(0), Num(0), Kasir),
      \* a negative price, and with it a negative total
      OrderCreate(<<CartItem("C", 1, Num(0 - 1))>>, Num(0 - 1), Num(0), Kasir),
      \* cash that is not a number
      OrderCreate(<<CartItem("B", 1, Num(1))>>, Num(1), NaN, Kasir) }

(***************************************************************************)
(* State.                                                                  *)
(***************************************************************************)
VARIABLES
    orders,     \* db.orders: the stored documents, in insertion order
    resp,       \* what the last completed request returned
    dash,       \* get_dashboard_stats between its two reads of db.orders
    menu_items, \* db.menu_items: the catalog documents, in insertion order
    submitted   \* history: the orders create_order has returned, in order

vars == <<orders, resp, dash, menu_items, submitted>>

MenuItem(name, price, category, available) ==
    [name |-> name, price |-> price, category |-> category, available |-> available]

\* the catalog init_default_data inserts at startup
SeedMenu ==
    << MenuItem("Nasi Goreng Seafood", Num(25000), "Nasi Goreng", TRUE),
       MenuItem("Nasi Goreng Kambing", Num(28000), "Nasi Goreng", TRUE),
       MenuItem("Nasi Goreng Sayuran", Num(18000), "Nasi Goreng", TRUE),
       MenuItem("Nasi Goreng Spesial", Num(22000), "Nasi Goreng", TRUE),
       MenuItem("Soto Ayam", Num(20000), "Soto", TRUE),
       MenuItem("Tahu Gejrot", Num(12000), "Snack", TRUE),
       MenuItem("Gado-Gado", Num(15000), "Sayuran", TRUE),
       MenuItem("Ayam Goreng", Num(24000), "Ayam", TRUE),
       MenuItem("Es Teh Manis", Num(5000), "Minuman", TRUE),
       MenuItem("Es Cendol", Num(8000), "Minuman", TRUE),
       MenuItem("Jus Alpukat", Num(12000), "Minuman", TRUE),
       MenuItem("Kopi Hitam", Num(7000), "Minuman", TRUE) >>

\* request bodies of POST /menu: an available item and one that is not
MenuCandidates ==
    { MenuItem("Es Jeruk", Num(6000), "Minuman", TRUE),
      MenuItem("Sate Ayam", Num(30000), "Ayam", FALSE) }

\* an identifier made once, when the class is defined (Field(default=...) in
\* place of default_factory): every order carries it
Uuid4Once == Len(<<>>) + 1

\* uuid.uuid4(): an identifier no stored document has
Uuid4 == Len(orders) + 1

\* Order(**order_dict): the defaults of the model fill id, payment_method,
\* order_date and status
Order(order_dict, now) ==
    [id |-> Uuid4,
     items |-> order_dict.items,
     total_amount |-> order_dict.total_amount,
     payment_method |-> "cash",
     cash_received |-> order_dict.cash_received,
     change_amount |-> order_dict.change_amount,
     cashier_id |-> order_dict.cashier_id,
     cashier_name |-> order_dict.cashier_name,
     order_date |-> now,
     status |-> "completed"]

\* order_date written with isoformat(timespec="seconds")
prepare_for_mongo_seconds(data) ==
    [data EXCEPT !.order_date = IsoFormat([data.order_date EXCEPT !.microsecond = 0])]

\* prepare_for_mongo: order_date becomes its isoformat string
prepare_for_mongo(data) == [data EXCEPT !.order_date = IsoFormat(data.order_date)]

HTTPException(op, status_code) == [op |-> op, status |-> status_code, body |-> <<>>]
Returned(op, body) == [op |-> op, status |-> 200, body |-> body]

Idle == [pc |-> "idle"]

Init ==
    /\ orders = <<>>
    /\ resp = [op |-> "none", status |-> 0, body |-> <<>>]
    /\ dash = Idle
    /\ menu_items = SeedMenu
    /\ submitted = <<>>

\* POST /menu
create_menu_item(menu_item, current_user) ==
    IF current_user.role # "admin"
    THEN /\ resp' = HTTPException("create_menu_item", 403)
         /\ UNCHANGED <<orders, dash, menu_items, submitted>>
    ELSE /\ Len(menu_items) < Len(SeedMenu) + MaxMenuCreated
         /\ menu_items' = Append(menu_items, menu_item)
         /\ resp' = Returned("create_menu_item", menu_item)
         /\ UNCHANGED <<orders, dash, submitted>>

\* POST /orders with insert_one ahead of the check of the change
create_order_insert_first(order_create, current_user, now) ==
    LET change_amount == FSub(order_create.cash_received, order_create.total_amount)
        order_dict == [cd \in {"change_amount"} \cup DOMAIN order_create |->
                          IF cd = "change_amount" THEN change_amount
                          ELSE order_create[cd]]
        order_obj == Order(order_dict, now)
    IN  /\ Len(orders) < MaxOrders
        /\ orders' = Append(orders, prepare_for_mongo(order_obj))
        /\ IF FLt(change_amount, Num(0))
           THEN /\ resp' = HTTPException("create_order", 400)
                /\ UNCHANGED <<dash, menu_items, submitted>>
           ELSE /\ resp' = Returned("create_order", order_obj)
                /\ submitted' = Append(submitted, order_obj)
                /\ UNCHANGED <<dash, menu_items>>

\* POST /orders
create_order(order_create, current_user, now) ==
    LET change_amount == FSub(order_create.cash_received, order_create.total_amount)
    IN  IF FLt(change_amount, Num(0))
        THEN /\ resp' = HTTPException("create_order", 400)
             /\ UNCHANGED <<orders, dash, menu_items, submitted>>
        ELSE LET order_dict == [cd \in {"change_amount"} \cup DOMAIN order_create |->
                                   IF cd = "change_amount" THEN change_amount
                                   ELSE order_create[cd]]
                 order_obj == Order(order_dict, now)
             IN  /\ Len(orders) < MaxOrders
                 /\ orders' = Append(orders, prepare_for_mongo(order_obj))
                 /\ resp' = Returned("create_order", order_obj)
                 /\ submitted' = Append(submitted, order_obj)
                 /\ UNCHANGED <<dash, menu_items>>

(***************************************************************************)
(* Queries on db.orders.                                                   *)
(***************************************************************************)
Min(a, b) == IF a <= b THEN a ELSE b

\* cursor.to_list(length): the first `length` documents of the cursor
to_list(cursor, length) == SubSeq(cursor, 1, Min(length, Len(cursor)))

\* {"order_date": {"$gte": today_str, "$lt": tomorrow_str}}
InDateRange(order, today_str, tomorrow_str) ==
    /\ StrGe(order.order_date, today_str)
    /\ StrLt(order.order_date, tomorrow_str)

\* db.orders.find({"order_date": {"$gte": today_str, "$lt": tomorrow_str}})
find_order_date(today_str, tomorrow_str) ==
    SelectSeq(orders, LAMBDA order: InDateRange(order, today_str, tomorrow_str))

\* db.orders.find()
find_all == orders

\* sum(order["total_amount"] for order in orders), from the int 0
RECURSIVE SumTotal(_)
SumTotal(os) ==
    IF os = <<>> THEN Num(0)
    ELSE FAdd(SumTotal(SubSeq(os, 1, Len(os) - 1)), os[Len(os)].total_amount)

(***************************************************************************)
(* Popular items of get_today_orders.                                      *)
(***************************************************************************)
\* the line items of the orders, in the order the two loops visit them
RECURSIVE Lines(_)
Lines(os) == IF os = <<>> THEN <<>> ELSE Head(os).items \o Lines(Tail(os))

\* item_count[name] += quantity, or item_count[name] = quantity for a new name;
\* the dict keeps its keys in insertion order
CountItem(item_count, item) ==
    IF \E i \in 1..Len(item_count) : item_count[i].name = item.name
    THEN [i \in 1..Len(item_count) |->
            IF item_count[i].name = item.name
            THEN [item_count[i] EXCEPT !.quantity = @ + item.quantity]
            ELSE item_count[i]]
    ELSE Append(item_count, [name |-> item.name, quantity |-> item.quantity])

RECURSIVE ItemCount(_)
ItemCount(lines) ==
    IF lines = <<>> THEN <<>>
    ELSE CountItem(ItemCount(SubSeq(lines, 1, Len(lines) - 1)), lines[Len(lines)])

\* where a stable descending sort puts e among the already sorted: behind every
\* entry whose quantity is not smaller
InsertDesc(sorted, e) ==
    LET k == Cardinality({i \in 1..Len(sorted) : sorted[i].quantity >= e.quantity})
    IN  SubSeq(sorted, 1, k) \o <<e>> \o SubSeq(sorted, k + 1, Len(sorted))

\* sorted(item_count.items(), key=lambda x: x[1], reverse=True)
RECURSIVE SortedByQuantityDesc(_)
SortedByQuantityDesc(item_count) ==
    IF item_count = <<>> THEN <<>>
    ELSE InsertDesc(SortedByQuantityDesc(SubSeq(item_count, 1, Len(item_count) - 1)),
                    item_count[Len(item_count)])

popular_items(os) == to_list(SortedByQuantityDesc(ItemCount(Lines(os))), TopN)

DailySales(date, total_orders, total_revenue, popular) ==
    [date |-> date, total_orders |-> total_orders, total_revenue |-> total_revenue,
     popular_items |-> popular]

(***************************************************************************)
(* GET /orders/today                                                       *)
(***************************************************************************)
get_today_orders(now) ==
    LET today == StartOfDay(now)
    IN  IF ~ReplaceDayValid(today, today.day + 1)
        THEN \* today.replace(day=today.day + 1) raises ValueError
             /\ resp' = HTTPException("get_today_orders", 500)
             /\ UNCHANGED <<orders, dash, menu_items, submitted>>
        ELSE LET tomorrow == ReplaceDay(today, today.day + 1)
                 found == to_list(find_order_date(IsoFormat(today), IsoFormat(tomorrow)),
                                  ToListLength)
             IN  /\ resp' = Returned("get_today_orders",
                                     DailySales(StrfDate(today), Len(found), SumTotal(found),
                                                popular_items(found)))
                 /\ UNCHANGED <<orders, dash, menu_items, submitted>>

(***************************************************************************)
(* GET /dashboard/stats: the handler reads db.orders twice, and other      *)
(* requests run between the two reads.                                     *)
(***************************************************************************)
\* up to the first find: today's orders
dashboard_today(now) ==
    LET today == StartOfDay(now)
    IN  /\ dash = Idle
        /\ IF ~ReplaceDayValid(today, today.day + 1)
           THEN /\ resp' = HTTPException("get_dashboard_stats", 500)
                /\ UNCHANGED <<orders, dash, menu_items, submitted>>
           ELSE LET tomorrow_str == IsoFormat(ReplaceDay(today, today.day + 1))
                    today_orders == to_list(find_order_date(IsoFormat(today), tomorrow_str),
                                            ToListLength)
                IN  /\ dash' = [pc |-> "all", today_orders |-> today_orders]
                    /\ UNCHANGED <<orders, resp, menu_items, submitted>>

\* db.menu_items.count_documents({"available": True})
count_available == Len(SelectSeq(menu_items, LAMBDA item : item.available))

\* the second find, the count of the catalog and the response
dashboard_all_time ==
    /\ dash # Idle
    /\ LET all_orders == to_list(find_all, ToListLength)
       IN  resp' = Returned("get_dashboard_stats",
                       [today |-> [orders |-> Len(dash.today_orders),
                                   revenue |-> SumTotal(dash.today_orders)],
                        all_time |-> [orders |-> Len(all_orders),
                                      revenue |-> SumTotal(all_orders),
                                      menu_items |-> count_available]])
    /\ dash' = Idle
    /\ UNCHANGED <<orders, menu_items, submitted>>

(***************************************************************************)
(* GET /orders                                                             *)
(***************************************************************************)
\* parse_from_mongo: order_date becomes a datetime again
parse_from_mongo(item) == [item EXCEPT !.order_date = FromIsoFormat(item.order_date)]

\* the orders a cursor sorted by order_date descending may yield: every
\* arrangement of db.orders in which no document precedes one with a larger
\* order_date.  MongoDB leaves the order of documents with equal keys open.
sort_order_date_desc ==
    LET n == Len(orders)
        perms == {f \in [1..n -> 1..n] : \A i, j \in 1..n : i # j => f[i] # f[j]}
    IN  { [k \in 1..n |-> orders[f[k]]] :
            f \in {g \in perms :
                     \A k \in 1..(n - 1) :
                        ~StrLt(orders[g[k]].order_date, orders[g[k + 1]].order_date)} }

\* values of the query parameter limit (50 when absent)
Limits == {0 - 1, 0, 1, 2, 50}

\* a response body that is a list (List[Order])
ListOf(list) == [list |-> list]

get_orders(limit) ==
    /\ IF limit < 0
       THEN \* to_list(length) raises ValueError for a negative length
            resp' = HTTPException("get_orders", 500)
       ELSE \E cursor \in sort_order_date_desc :
               LET found == to_list(cursor, limit)
               IN  resp' = Returned("get_orders",
                                    ListOf([k \in 1..Len(found) |->
                                              parse_from_mongo(found[k])]))
    /\ UNCHANGED <<orders, dash, menu_items, submitted>>

(***************************************************************************)
(* Specifications.  The handlers run on requests whose bodies and clock    *)
(* readings are drawn from the given sets.                                 *)
(***************************************************************************)
\* one clock reading (a day that is not the last of its month), every request body
Next ==
    \/ \E order_create \in Candidates, current_user \in Users, now \in {Dec30} :
          create_order(order_create, current_user, now)
    \/ \E now \in {Dec30} : get_today_orders(now)
    \/ \E now \in {Dec30} : dashboard_today(now)
    \/ dashboard_all_time

Spec == Init /\ [][Next]_vars

\* every clock reading, the two well-formed request bodies
NextWindow ==
    \/ \E order_create \in WellFormed, current_user \in Users, now \in Instants :
          create_order(order_create, current_user, now)
    \/ \E now \in Instants : get_today_orders(now)
    \/ \E now \in Instants : dashboard_today(now)
    \/ dashboard_all_time

SpecWindow == Init /\ [][NextWindow]_vars

\* the order log and the catalog: two clock readings within one day, a
\* well-formed body and a refused one
LogBodies ==
    { OrderCreate(<<CartItem("B", 1, Num(1))>>, Num(1), Num(1), Kasir),
      OrderCreate(<<CartItem("A", 2, Num(1))>>, Num(2), Num(1), Kasir) }

LogInstants == {DateTime(2024, 12, 30, 0, 0, 0, 0), Dec30}

NextLog ==
    \/ \E order_create \in LogBodies, current_user \in Users, now \in LogInstants :
          create_order(order_create, current_user, now)
    \/ \E limit \in Limits : get_orders(limit)
    \/ \E now \in LogInstants : get_today_orders(now)
    \/ \E now \in LogInstants : dashboard_today(now)
    \/ dashboard_all_time
    \/ \E menu_item \in MenuCandidates, current_user \in Users :
          create_menu_item(menu_item, current_user)

SpecLog == Init /\ [][NextLog]_vars

(***************************************************************************)
(* What the claims speak of.                                               *)
(***************************************************************************)
\* price * quantity, a float times an int
FMulInt(a, n) ==
    IF a = NaN THEN NaN
    ELSE IF a \in {Inf, NegInf}
         THEN (IF n = 0 THEN NaN
               ELSE IF n > 0 THEN a
               ELSE IF a = Inf THEN NegInf ELSE Inf)
    ELSE Num(a.v * n)

\* the total recomputed from the line items: the sum of price x quantity
RECURSIVE LineTotal(_)
LineTotal(items) ==
    IF items = <<>> THEN Num(0)
    ELSE FAdd(LineTotal(SubSeq(items, 1, Len(items) - 1)),
              FMulInt(items[Len(items)].price, items[Len(items)].quantity))

\* a step of create_order on some request of the specification's inputs
IsCreateOrder(order_create) ==
    \E current_user \in Users, now \in Instants : create_order(order_create, current_user, now)

\* C1: a candidate whose cash received is less than the total recomputed from
\* its line items is refused with the insufficient-payment error (400) and the
\* order log stays as it was, whatever total the caller asserted.
C1_InsufficientPaymentRefused ==
    [][\A order_create \in Candidates :
          (IsCreateOrder(order_create)
           /\ FLt(order_create.cash_received, LineTotal(order_create.items)))
          => (resp'.status = 400 /\ orders' = orders)]_vars

\* C2: every stored transaction has total amount equal to the sum over its
\* line items of price x quantity.
C2_StoredTotalIsLineTotal ==
    \A i \in 1..Len(orders) : FEq(orders[i].total_amount, LineTotal(orders[i].items))

\* C3: every stored transaction has change = cash received - total amount and
\* change >= 0, and the order returned to the submitter carries that change.
C3_ChangeIsCashMinusTotal ==
    /\ \A i \in 1..Len(orders) :
          /\ FEq(orders[i].change_amount,
                 FSub(orders[i].cash_received, orders[i].total_amount))
          /\ FGe(orders[i].change_amount, Num(0))
    /\ (resp.op = "create_order" /\ resp.status = 200)
          => FEq(resp.body.change_amount,
                 FSub(resp.body.cash_received, resp.body.total_amount))

\* C4: a candidate with no line item is refused with a validation error and
\* nothing is appended to the order log.
C4_EmptySaleRefused ==
    [][\A order_create \in Candidates :
          (IsCreateOrder(order_create) /\ order_create.items = <<>>)
          => (resp'.status \in {400, 422} /\ orders' = orders)]_vars

\* C5: every line item of every stored transaction has quantity >= 1 and
\* price >= 0.
C5_StoredLinesValid ==
    \A i \in 1..Len(orders) :
       \A k \in 1..Len(orders[i].items) :
          /\ orders[i].items[k].quantity >= 1
          /\ FGe(orders[i].items[k].price, Num(0))

(***************************************************************************)
(* The UTC day of a reference instant, by the calendar.                    *)
(***************************************************************************)
\* the day after dt, at the same time of day
NextCalendarDay(dt) ==
    IF dt.day < DaysInMonth(dt.year, dt.month) THEN [dt EXCEPT !.day = @ + 1]
    ELSE IF dt.month < 12 THEN [dt EXCEPT !.month = @ + 1, !.day = 1]
    ELSE [dt EXCEPT !.year = @ + 1, !.month = 1, !.day = 1]

Fields(dt) == <<dt.year, dt.month, dt.day, dt.hour, dt.minute, dt.second, dt.microsecond>>

\* a is an earlier instant than b
Before(a, b) == StrLt(Fields(a), Fields(b))

\* the creation timestamp of a stored transaction
CreatedAt(order) == FromIsoFormat(order.order_date)

\* start <= creation timestamp < end, for the UTC day of now
InDay(order, now) ==
    /\ ~Before(CreatedAt(order), StartOfDay(now))
    /\ Before(CreatedAt(order), NextCalendarDay(StartOfDay(now)))

\* the stored transactions of the UTC day of now, all of them
OrdersOfDay(now) == SelectSeq(orders, LAMBDA order : InDay(order, now))

\* C6: the daily summary counts a stored transaction if and only if its
\* creation timestamp lies in [start of the UTC day, start of the next UTC day):
\* the summary's count is the number of those transactions, one stamped at the
\* start instant among them and one stamped at the end instant not.
C6_HalfOpenWindow ==
    [][\A now \in Instants :
          (get_today_orders(now) /\ resp'.status = 200)
          => resp'.body.total_orders = Len(OrdersOfDay(now))]_vars

\* C7: for every reference instant, the last day of a month or of a year
\* included, the daily summary and the dashboard are returned without error.
C7_ReportOnEveryDay ==
    [][\A now \in Instants :
          /\ get_today_orders(now) => resp'.status = 200
          /\ dashboard_today(now) => dash'.pc = "all"]_vars

\* the cumulative quantity of a name over the line items of the given orders
Cumulative(os, name) ==
    LET item_count == ItemCount(Lines(os))
        at == {i \in 1..Len(item_count) : item_count[i].name = name}
    IN  IF at = {} THEN 0 ELSE item_count[CHOOSE i \in at : TRUE].quantity

NamesSold(os) == {Lines(os)[k].name : k \in 1..Len(Lines(os))}

\* C8: the popularity ranking lists names sold in the window with their
\* cumulative quantity over every line item of every in-window transaction,
\* by quantity descending, ties in first-seen order, the first 5 only; no
\* omitted name has a larger cumulative quantity than a listed one.
C8_PopularityRanking ==
    [][\A now \in Instants :
          (get_today_orders(now) /\ resp'.status = 200)
          => LET ranking == resp'.body.popular_items
                 listed == {ranking[k].name : k \in 1..Len(ranking)}
                 sold == OrdersOfDay(now)
             IN  /\ Len(ranking) = Min(TopN, Cardinality(NamesSold(sold)))
                 /\ \A k \in 1..Len(ranking) :
                       ranking[k].quantity = Cumulative(sold, ranking[k].name)
                 /\ ranking = to_list(SortedByQuantityDesc(ItemCount(Lines(sold))), TopN)
                 /\ \A name \in NamesSold(sold) \ listed :
                       \A k \in 1..Len(ranking) :
                          Cumulative(sold, name) <= ranking[k].quantity]_vars

\* C9: the daily summary's count is the number of all stored transactions in
\* the window and its revenue the sum of their totals, however many they are;
\* so are the dashboard's numbers for today.
C9_CountAndRevenueOfWindow ==
    [][\A now \in Instants :
          /\ (get_today_orders(now) /\ resp'.status = 200)
             => /\ resp'.body.total_orders = Len(OrdersOfDay(now))
                /\ resp'.body.total_revenue = SumTotal(OrdersOfDay(now))
          /\ (dashboard_today(now) /\ dash'.pc = "all")
             => /\ Len(dash'.today_orders) = Len(OrdersOfDay(now))
                /\ SumTotal(dash'.today_orders) = SumTotal(OrdersOfDay(now))]_vars

\* C10: after N successful submissions the all-time view of the dashboard
\* reports orders = N and revenue = the sum of the N totals.
C10_AllTimeStats ==
    [][dashboard_all_time
       => /\ resp'.body.all_time.orders = Len(orders)
          /\ resp'.body.all_time.revenue = SumTotal(orders)]_vars

(***************************************************************************)
(* The recent transactions.                                                *)
(***************************************************************************)
\* where e goes among transactions already ordered by creation timestamp
\* descending, behind every one that is not older than it
InsertRecent(sorted, e) ==
    LET k == Cardinality({i \in 1..Len(sorted) : ~Before(sorted[i].order_date, e.order_date)})
    IN  SubSeq(sorted, 1, k) \o <<e>> \o SubSeq(sorted, k + 1, Len(sorted))

\* the transactions by creation timestamp descending, those of equal
\* timestamp in insertion order
RECURSIVE MostRecentFirst(_)
MostRecentFirst(os) ==
    IF os = <<>> THEN <<>>
    ELSE InsertRecent(MostRecentFirst(SubSeq(os, 1, Len(os) - 1)), os[Len(os)])

Parsed(os) == [k \in 1..Len(os) |-> parse_from_mongo(os[k])]

\* C11: get_orders returns at most limit transactions, those with the latest
\* creation timestamps, by creation timestamp descending, transactions of
\* equal timestamp in insertion order.
C11_ListRecent ==
    [][\A limit \in Limits :
          (get_orders(limit) /\ limit >= 0)
          => /\ resp'.status = 200
             /\ Len(resp'.body.list) <= limit
             /\ resp'.body.list = to_list(MostRecentFirst(Parsed(orders)), limit)]_vars

(***************************************************************************)
(* The order log.                                                          *)
(***************************************************************************)
\* C12: the order log is append-only.  Every step leaves it as it was, or is
\* a successful submit that appends one record behind the unchanged records;
\* get_orders, the reports, create_menu_item and refused submits change nothing.
C12_AppendOnly ==
    [][\/ orders' = orders
       \/ /\ resp'.op = "create_order"
          /\ resp'.status = 200
          /\ Len(orders') = Len(orders) + 1
          /\ SubSeq(orders', 1, Len(orders)) = orders]_vars

\* the log holds transactions, the catalog has grown and the last request
\* was a refused submit
C12_Witness ==
    /\ Len(orders) >= 2
    /\ Len(menu_items) > Len(SeedMenu)
    /\ resp.op = "create_order"
    /\ resp.status = 400

\* C13: submit is not idempotent.  The log holds one record per successful
\* submit, resubmissions of an identical candidate included, and no two
\* stored transactions have the same identifier.
C13_SubmitNotIdempotent ==
    /\ Len(orders) = Len(submitted)
    /\ \A i, j \in 1..Len(orders) : i # j => orders[i].id # orders[j].id

\* the same candidate submitted twice at the same instant: two stored
\* transactions that differ in the identifier only
C13_Witness ==
    \E i, j \in 1..Len(orders) :
       /\ i # j
       /\ [orders[i] EXCEPT !.id = 0] = [orders[j] EXCEPT !.id = 0]

\* C14: a transaction returned by get_orders has the total amount, cash
\* received, change amount, line-item prices and quantities and creation
\* timestamp that the submit of the same identifier returned.
C14_RoundTrip ==
    (resp.op = "get_orders" /\ resp.status = 200)
    => \A k \in 1..Len(resp.body.list) :
          LET got == resp.body.list[k]
          IN  /\ \E i \in 1..Len(submitted) : submitted[i].id = got.id
              /\ \A i \in 1..Len(submitted) :
                    submitted[i].id = got.id
                    => /\ got.total_amount = submitted[i].total_amount
                       /\ got.cash_received = submitted[i].cash_received
                       /\ got.change_amount = submitted[i].change_amount
                       /\ Len(got.items) = Len(submitted[i].items)
                       /\ \A n \in 1..Len(got.items) :
                             /\ got.items[n].price = submitted[i].items[n].price
                             /\ got.items[n].quantity = submitted[i].items[n].quantity
                       /\ got.order_date = submitted[i].order_date

\* get_orders has returned a transaction stamped on a whole second and one
\* stamped with microseconds
C14_Witness ==
    /\ resp.op = "get_orders"
    /\ resp.status = 200
    /\ \E k, n \in 1..Len(resp.body.list) :
          /\ resp.body.list[k].order_date.microsecond = 0
          /\ resp.body.list[n].order_date.microsecond # 0

\* the sum of the totals of the stored transactions at the given positions
RECURSIVE SumAt(_)
SumAt(at) ==
    IF at = {} THEN Num(0)
    ELSE LET i == CHOOSE i \in at : TRUE
         IN  FAdd(SumAt(at \ {i}), orders[i].total_amount)

\* C15: no append is lost, and the count and revenue of every daily summary
\* are those of a set of stored transactions of the window that contains
\* every in-window transaction whose submit had returned when the report began.
C15_ReportsOverCompleteAppends ==
    [][/\ Len(orders') = Len(submitted')
       /\ \A now \in Instants :
             (get_today_orders(now) /\ resp'.status = 200)
             => LET returned == {i \in 1..Len(orders) : InDay(orders[i], now)}
                IN  \E counted \in SUBSET (1..Len(orders)) :
                       /\ returned \subseteq counted
                       /\ \A i \in counted : InDay(orders[i], now)
                       /\ resp'.body.total_orders = Cardinality(counted)
                       /\ resp'.body.total_revenue = SumAt(counted)]_vars

\* C16: the operator id and name stored with a transaction are those of the
\* authenticated identity of the request that submitted it.
C16_OperatorIsAuthenticated ==
    [][\A order_create \in Candidates, current_user \in Users, now \in {Dec30} :
          (create_order(order_create, current_user, now) /\ resp'.status = 200)
          => /\ orders'[Len(orders')].cashier_id = current_user.id
             /\ orders'[Len(orders')].cashier_name = current_user.name]_vars

\* C17: in every response of get_dashboard_stats, today's orders and revenue
\* do not exceed the all-time orders and revenue, whatever was submitted
\* between the two reads of the log.
C17_TodayWithinAllTime ==
    (resp.op = "get_dashboard_stats" /\ resp.status = 200)
    => /\ resp.body.today.orders <= resp.body.all_time.orders
       /\ FGe(resp.body.all_time.revenue, resp.body.today.revenue)

====
